---- MODULE Spec2Model ----
(***************************************************************************)
(* Rock-paper-scissors simulator (src/main.ts).                            *)
(*                                                                         *)
(* Entities are JavaScript objects: the model keeps them in `heap`, keyed  *)
(* by an object identity, and the arrays `entities` and                    *)
(* `entityByElement[k]` hold identities (references).                      *)
(*                                                                         *)
(* Coordinates are `number`s.  Click positions are whole pixels and a      *)
(* speed is ENTITY_SPEED * f with f in [0.5, 1), so the model works in     *)
(* fixed point with Scale units per pixel: every sum, negation, clamp and  *)
(* comparison the program performs is then exact.                          *)
(***************************************************************************)
EXTENDS Integers, Sequences, FiniteSets, TLC

\* ------------------------------------------------------------ constants
\* units per pixel of the fixed-point representation of `number`
Scale == 2
\* const width = 400 / const height = 400 (canvas.width, canvas.height)
width == 400
height == 400
ENTITY_SIZE == 10
ENTITY_SPEED == 1
\* the dwell of loop(): performance.now() - timeWhenDone > 1000
DwellMs == 1000

\* ------------------------------------------------------------ bounds
\* entities generated per kind at start-up (COUNT in the source is 50)
InitCount == 1
\* clicks on the canvas explored from the start-up state
MaxClicks == 2
\* clicks on the canvas explored after the clicks of SettlingClicks
MaxLateClicks == 1
\* animation frames are delivered while fewer than MaxTicks loop() calls have begun
MaxTicks == 4
\* clicks on the start-recording button explored
MaxStarts == 2
\* the clock advances in steps of TimeStep ms, up to MaxNow
TimeStep == 1000
MaxNow == 2001
\* when every frame comes TimeStep ms after the one before: the last frame time
PacedMaxNow == 4001
\* entities of a store handed to a single update() pass
UnitMaxEntities == 3
\* entities of a store handed to an update() pass that is followed to its end
TickMaxEntities == 2
\* successive direct calls of changeEntityElement explored
MaxChangeCalls == 2

Element == {"rock", "paper", "scissors"}

W == width * Scale
H == height * Scale
R == ENTITY_SIZE * Scale

Max(a, b) == IF a >= b THEN a ELSE b
Min(a, b) == IF a <= b THEN a ELSE b

\* function clamp(value, min, max)
clamp(value, min, max) == Max(min, Min(max, value))

\* ------------------------------------------------------------ the store
\* A store value is [heap, entities, entityByElement]; the operators below
\* are the program's functions as transformations of such a value.

\* Array.prototype.indexOf, 0-based, -1 when absent
indexOf(arr, x) ==
    IF \E i \in 1..Len(arr) : arr[i] = x
    THEN (CHOOSE i \in 1..Len(arr) : arr[i] = x /\ \A j \in 1..(i-1) : arr[j] # x) - 1
    ELSE -1

\* Array.prototype.splice(index, 1): a negative index counts from the end
splice1(arr, index) ==
    LET start == IF index < 0 THEN Max(Len(arr) + index, 0) ELSE Min(index, Len(arr))
    IN  [i \in 1..(Len(arr) - (IF start < Len(arr) THEN 1 ELSE 0)) |->
            IF i <= start THEN arr[i] ELSE arr[i + 1]]

\* const speed = ENTITY_SPEED * (Math.random() * 0.5 + 0.5) and
\* vel = [cos(direction) * speed, sin(direction) * speed]: the velocities of
\* the grid that createEntity can produce have a length in [0.5, 1) * ENTITY_SPEED
SpeedOk(vel) ==
    LET sq == vel[1] * vel[1] + vel[2] * vel[2]
        full == (ENTITY_SPEED * Scale) * (ENTITY_SPEED * Scale)
    IN  4 * sq >= full /\ sq < full

createEntity_Unshift(s, pos, vel, element) ==
    LET id == Len(s.entities) + 1
        h  == [i \in 1..id |-> IF i = id
                                THEN [pos |-> pos, vel |-> vel, element |-> element]
                                ELSE s.heap[i]]
    IN  [heap |-> h,
         entities |-> Append(s.entities, id),
         entityByElement |-> [s.entityByElement EXCEPT ![element] = <<id>> \o @]]

\* createEntity, given the velocity it computes from direction and speed
createEntity(s, pos, vel, element) ==
    LET id == Len(s.entities) + 1
        h  == [i \in 1..id |-> IF i = id
                                THEN [pos |-> pos, vel |-> vel, element |-> element]
                                ELSE s.heap[i]]
        es == Append(s.entities, id)
    IN  [heap |-> h,
         entities |-> es,
         entityByElement |-> [s.entityByElement EXCEPT
                                 ![element] = Append(@, es[Len(es)])]]

changeEntityElement_NoSplice(s, id, element) ==
    [s EXCEPT !.heap[id].element = element,
              !.entityByElement[element] = Append(@, id)]

changeEntityElement_SwapRemove(s, id, element) ==
    LET old   == s.heap[id].element
        arr   == s.entityByElement[old]
        index == indexOf(arr, id)
        moved == [i \in 1..(Len(arr) - 1) |-> IF i = index + 1 THEN arr[Len(arr)] ELSE arr[i]]
        by1   == [s.entityByElement EXCEPT ![old] = IF index < 0 THEN arr ELSE moved]
    IN  [s EXCEPT !.heap[id].element = element,
                  !.entityByElement = [by1 EXCEPT ![element] = Append(@, id)]]

\* function changeEntityElement(entity, element)
changeEntityElement(s, id, element) ==
    LET old   == s.heap[id].element
        index == indexOf(s.entityByElement[old], id)
        by1   == [s.entityByElement EXCEPT ![old] = splice1(@, index)]
    IN  [s EXCEPT !.heap[id].element = element,
                  !.entityByElement = [by1 EXCEPT ![element] = Append(@, id)]]

axisStep_ClampOnly(p, v, bound) ==
    <<clamp(p + v, R, bound - R), v>>

\* one axis of updateEntity: <<position, velocity>> after the step
axisStep(p, v, bound) ==
    LET p1 == p + v
    IN  IF p1 < R \/ p1 > bound - R
        THEN <<clamp(p1, R, bound - R), -v>>
        ELSE <<p1, v>>

updateEntity_NoClamp(s, id) ==
    LET e == s.heap[id]
    IN  [s EXCEPT !.heap[id].pos = <<e.pos[1] + e.vel[1], e.pos[2] + e.vel[2]>>]

\* function updateEntity(entity)
updateEntity(s, id) ==
    LET e == s.heap[id]
        x == axisStep(e.pos[1], e.vel[1], W)
        y == axisStep(e.pos[2], e.vel[2], H)
    IN  [s EXCEPT !.heap[id].pos = <<x[1], y[1]>>,
                  !.heap[id].vel = <<x[2], y[2]>>]

enemyElementOf_Reversed(element) ==
    IF element = "rock" THEN "scissors"
    ELSE IF element = "paper" THEN "rock"
    ELSE "paper"

\* the conditional expression of checkCollision: the kind that beats `element`
enemyElementOf(element) ==
    IF element = "rock" THEN "paper"
    ELSE IF element = "paper" THEN "scissors"
    ELSE "rock"

hypotLess_OrEqual(p, q) ==
    LET dx == p[1] - q[1]
        dy == p[2] - q[2]
    IN  dx * dx + dy * dy <= (2 * R) * (2 * R)

\* Math.hypot(dx, dy) < ENTITY_SIZE * 2, exact on fixed-point operands
hypotLess(p, q) ==
    LET dx == p[1] - q[1]
        dy == p[2] - q[2]
    IN  dx * dx + dy * dy < (2 * R) * (2 * R)

checkCollision_AnyKind(s, id) ==
    LET hit == {j \in 1..Len(s.entities) :
                   /\ s.entities[j] # id
                   /\ s.heap[s.entities[j]].element # s.heap[id].element
                   /\ hypotLess(s.heap[id].pos, s.heap[s.entities[j]].pos)}
    IN  IF hit = {} THEN s
        ELSE changeEntityElement(s, id,
                 s.heap[s.entities[CHOOSE j \in hit : \A k \in hit : j <= k]].element)

checkCollision_Bounce(s, id) ==
    LET enemies == s.entityByElement[enemyElementOf(s.heap[id].element)]
        hit == {j \in 1..Len(enemies) : hypotLess(s.heap[id].pos, s.heap[enemies[j]].pos)}
        v   == s.heap[id].vel
    IN  IF hit = {} THEN s
        ELSE changeEntityElement([s EXCEPT !.heap[id].vel = <<-v[1], -v[2]>>], id,
                 s.heap[enemies[CHOOSE j \in hit : \A k \in hit : j <= k]].element)

\* function checkCollision(entity)
checkCollision(s, id) ==
    LET enemies == s.entityByElement[enemyElementOf(s.heap[id].element)]
        hit == {j \in 1..Len(enemies) : hypotLess(s.heap[id].pos, s.heap[enemies[j]].pos)}
    IN  IF hit = {} THEN s
        ELSE changeEntityElement(s, id,
                 s.heap[enemies[CHOOSE j \in hit : \A k \in hit : j <= k]].element)

\* the body of update()'s for-of loop for one entity
updateOne(s, id) == checkCollision(updateEntity(s, id), id)

\* ------------------------------------------------------------ the program
VARIABLES
    heap,             \* object identity -> [pos, vel, element]
    entities,         \* const entities: Entity[]
    entityByElement,  \* const entityByElement: Record<Element, Entity[]>
    timeWhenDone,     \* let timeWhenDone = 0
    status,           \* canvasRecorder.status
    now,              \* performance.now()
    pc,               \* statement of loop() being executed; 0: no code is running
    idx,              \* position of update()'s for-of iterator (1-based)
    viaRaf,           \* the running loop() was called as an animation callback
    scheduled,        \* requestAnimationFrame(loop) callbacks waiting for the next frame
    frameQueue,       \* callbacks of the current frame that have not run yet
    awaiting,         \* loop() invocations suspended at an await: where each resumes
    ticks,            \* loop() invocations begun
    starts,           \* clicks on start-recording
    frameUpdates,     \* update() passes completed in animation callbacks of the current frame
    settledSince,     \* time since which at most one kind is populated; -1: not settled
    stops,            \* calls of canvasRecorder.stop()
    tickStart         \* the heap as the running update() found it; <<>>: update() is not running

vars == <<heap, entities, entityByElement, timeWhenDone, status, now, pc, idx, viaRaf,
          scheduled, frameQueue, awaiting, ticks, starts, frameUpdates, settledSince,
          stops, tickStart>>

storeVars == <<heap, entities, entityByElement>>
ctlVars == <<pc, idx, viaRaf, scheduled, frameQueue, awaiting>>

Store == [heap |-> heap, entities |-> entities, entityByElement |-> entityByElement]

SetStore(s) ==
    /\ heap' = s.heap
    /\ entities' = s.entities
    /\ entityByElement' = s.entityByElement

EmptyStore ==
    [heap |-> <<>>, entities |-> <<>>, entityByElement |-> [k \in Element |-> <<>>]]

\* the `elementsLeft` computation of loop()
elementsLeftOf(by) ==
    3 - (IF Len(by["rock"]) = 0 THEN 1 ELSE 0)
      - (IF Len(by["paper"]) = 0 THEN 1 ELSE 0)
      - (IF Len(by["scissors"]) = 0 THEN 1 ELSE 0)

\* "settling": at most one kind-collection is non-empty
SettledIn(by) == Cardinality({k \in Element : Len(by[k]) > 0}) <= 1

SettledSinceAfter(by) ==
    IF ~SettledIn(by) THEN -1
    ELSE IF settledSince = -1 THEN now ELSE settledSince

\* ---- start-up: the three generateEntities calls
\* The i-th draw of a cluster: direction and radial offset give the position,
\* the same direction gives the velocity heading.
InitDraw(element, i) ==
    IF element = "rock"
    THEN [pos |-> <<100 * Scale, (133 - (i - 1)) * Scale>>, vel |-> <<0, -1>>]
    ELSE IF element = "paper"
    THEN [pos |-> <<200 * Scale, (267 + (i - 1)) * Scale>>, vel |-> <<0, 1>>]
    ELSE [pos |-> <<300 * Scale, (133 - (i - 1)) * Scale>>, vel |-> <<0, -1>>]

RECURSIVE generateEntities(_, _, _)
generateEntities(s, count, element) ==
    IF count = 0 THEN s
    ELSE LET s1 == generateEntities(s, count - 1, element)
             d  == InitDraw(element, count)
         IN  createEntity(s1, d.pos, d.vel, element)

InitStore ==
    generateEntities(
        generateEntities(
            generateEntities(EmptyStore, InitCount, "rock"),
            InitCount, "paper"),
        InitCount, "scissors")

Init ==
    /\ heap = InitStore.heap
    /\ entities = InitStore.entities
    /\ entityByElement = InitStore.entityByElement
    /\ timeWhenDone = 0
    /\ status = "ready"
    /\ now = 1
    /\ pc = 0
    /\ idx = 1
    /\ viaRaf = FALSE
    /\ scheduled = 0
    /\ frameQueue = 0
    /\ awaiting = <<>>
    /\ ticks = 0
    /\ starts = 0
    /\ frameUpdates = 0
    /\ settledSince = -1
    /\ stops = 0
    /\ tickStart = <<>>

\* ---- the canvas click handler
\* what a click can yield: offsetX/offsetY, the velocity from the random
\* direction and speed, and the random element
ClickNearScissors ==
    [pos |-> <<300 * Scale, 140 * Scale>>, vel |-> <<0, -1>>, element |-> "rock"]
ClickNearPaper ==
    [pos |-> <<200 * Scale, 260 * Scale>>, vel |-> <<0, 1>>, element |-> "scissors"]
ClickNearBoth ==
    [pos |-> <<205 * Scale, 263 * Scale>>, vel |-> <<0, 1>>, element |-> "rock"]
ClickAtCorner ==
    [pos |-> <<10 * Scale, 5 * Scale>>, vel |-> <<-1, -1>>, element |-> "paper"]

ClickInputs == {ClickNearScissors, ClickNearPaper, ClickNearBoth, ClickAtCorner}

\* the event loop runs a handler only when no other code is running and the
\* callbacks of the current animation frame are done
Idle == pc = 0 /\ frameQueue = 0

CanvasClick(maxEntities) ==
    /\ Idle
    /\ Len(entities) < maxEntities
    /\ \E c \in ClickInputs :
          /\ SpeedOk(c.vel)
          /\ LET s == createEntity(Store, c.pos, c.vel, c.element)
             IN  /\ SetStore(s)
                 /\ settledSince' = SettledSinceAfter(s.entityByElement)
    /\ UNCHANGED <<timeWhenDone, status, now, ctlVars, ticks, starts, frameUpdates, stops,
                   tickStart>>

\* ---- loop()
\* the statements of loop(), in program order
LoopCode_AwaitBeforeDraw ==
    <<"update", "awaitStep", "draw", "checkStatus", "requestFrame", "checkDone">>

LoopCode_NoRafWhenIdle ==
    <<"update", "draw", "checkStatusNoRaf", "awaitStep", "requestFrame", "checkDone">>

LoopCode ==
    <<"update", "draw", "checkStatus", "awaitStep", "requestFrame", "checkDone">>

At(label) == pc > 0 /\ LoopCode[pc] = label
NextPc == IF pc = Len(LoopCode) THEN 0 ELSE pc + 1

\* document.getElementById("start-recording") click: canvasRecorder.start(); loop()
StartClick ==
    /\ Idle
    /\ starts < MaxStarts
    /\ ticks < MaxTicks
    /\ status' = "initializing"
    /\ pc' = 1
    /\ viaRaf' = FALSE
    /\ starts' = starts + 1
    /\ ticks' = ticks + 1
    /\ tickStart' = heap
    /\ UNCHANGED <<storeVars, timeWhenDone, now, idx, scheduled, frameQueue, awaiting,
                   frameUpdates, settledSince, stops>>

\* canvasRecorder.start() finishes initialising: the recorder is recording
RecorderStarted ==
    /\ pc = 0
    /\ status = "initializing"
    /\ status' = "recording"
    /\ UNCHANGED <<storeVars, timeWhenDone, now, ctlVars, ticks, starts, frameUpdates,
                   settledSince, stops, tickStart>>

\* the browser begins an animation frame: the callbacks requested so far will run in it
Frame ==
    /\ Idle
    /\ scheduled > 0
    /\ ticks < MaxTicks
    /\ frameQueue' = scheduled
    /\ scheduled' = 0
    /\ frameUpdates' = 0
    /\ UNCHANGED <<storeVars, timeWhenDone, status, now, pc, idx, viaRaf, awaiting, ticks,
                   starts, settledSince, stops, tickStart>>

\* the next callback of the frame: loop() is called
RunCallback ==
    /\ pc = 0
    /\ frameQueue > 0
    /\ frameQueue' = frameQueue - 1
    /\ pc' = 1
    /\ viaRaf' = TRUE
    /\ ticks' = ticks + 1
    /\ tickStart' = heap
    /\ UNCHANGED <<storeVars, timeWhenDone, status, now, idx, scheduled, awaiting, starts,
                   frameUpdates, settledSince, stops>>

UpdateStep_Snapshot ==
    /\ At("update")
    /\ IF idx <= Len(entities)
       THEN LET id  == entities[idx]
                s1  == updateEntity(Store, id)
                dom == enemyElementOf(heap[id].element)
                hit == \E o \in DOMAIN tickStart :
                          /\ o # id
                          /\ tickStart[o].element = dom
                          /\ hypotLess(s1.heap[id].pos, tickStart[o].pos)
                s   == IF hit THEN changeEntityElement(s1, id, dom) ELSE s1
            IN  /\ SetStore(s)
                /\ settledSince' = SettledSinceAfter(s.entityByElement)
                /\ idx' = idx + 1
                /\ UNCHANGED <<pc, frameUpdates, tickStart>>
       ELSE /\ idx' = 1
            /\ pc' = NextPc
            /\ frameUpdates' = frameUpdates + (IF viaRaf THEN 1 ELSE 0)
            /\ tickStart' = <<>>
            /\ UNCHANGED <<storeVars, settledSince, stops>>
    /\ UNCHANGED <<timeWhenDone, status, now, viaRaf, scheduled, frameQueue, awaiting,
                   ticks, starts, stops>>

UpdateStep_SkipAfterConversion ==
    /\ At("update")
    /\ IF idx <= Len(entities)
       THEN LET s == updateOne(Store, entities[idx])
            IN  /\ SetStore(s)
                /\ settledSince' = SettledSinceAfter(s.entityByElement)
                /\ idx' = IF s.heap[entities[idx]].element # heap[entities[idx]].element
                          THEN idx + 2 ELSE idx + 1
                /\ UNCHANGED <<pc, frameUpdates, tickStart>>
       ELSE /\ idx' = 1
            /\ pc' = NextPc
            /\ frameUpdates' = frameUpdates + (IF viaRaf THEN 1 ELSE 0)
            /\ tickStart' = <<>>
            /\ UNCHANGED <<storeVars, settledSince, stops>>
    /\ UNCHANGED <<timeWhenDone, status, now, viaRaf, scheduled, frameQueue, awaiting,
                   ticks, starts, stops>>

\* update(): one iteration of `for (const entity of entities)`, or its end
UpdateStep ==
    /\ At("update")
    /\ IF idx <= Len(entities)
       THEN LET s == updateOne(Store, entities[idx])
            IN  /\ SetStore(s)
                /\ settledSince' = SettledSinceAfter(s.entityByElement)
                /\ idx' = idx + 1
                /\ UNCHANGED <<pc, frameUpdates, tickStart>>
       ELSE /\ idx' = 1
            /\ pc' = NextPc
            /\ frameUpdates' = frameUpdates + (IF viaRaf THEN 1 ELSE 0)
            /\ tickStart' = <<>>
            /\ UNCHANGED <<storeVars, settledSince, stops>>
    /\ UNCHANGED <<timeWhenDone, status, now, viaRaf, scheduled, frameQueue, awaiting,
                   ticks, starts, stops>>

\* draw(): reads the store
Draw ==
    /\ At("draw")
    /\ pc' = NextPc
    /\ UNCHANGED <<storeVars, timeWhenDone, status, now, idx, viaRaf, scheduled, frameQueue,
                   awaiting, ticks, starts, frameUpdates, settledSince, stops, tickStart>>

\* if (canvasRecorder.status !== RecorderStatus.Recording) { requestAnimationFrame(loop); return; }
CheckStatus ==
    /\ At("checkStatus") \/ At("checkStatusNoRaf")
    /\ IF status # "recording"
       THEN /\ scheduled' = scheduled + (IF At("checkStatus") THEN 1 ELSE 0)
            /\ pc' = 0
            /\ viaRaf' = FALSE
       ELSE /\ pc' = NextPc
            /\ UNCHANGED <<scheduled, viaRaf>>
    /\ UNCHANGED <<storeVars, timeWhenDone, status, now, idx, frameQueue, awaiting, ticks,
                   starts, frameUpdates, settledSince, stops, tickStart>>

\* await canvasRecorder.step(): the invocation is suspended
AwaitStep ==
    /\ At("awaitStep")
    /\ awaiting' = Append(awaiting, NextPc)
    /\ pc' = 0
    /\ viaRaf' = FALSE
    /\ UNCHANGED <<storeVars, timeWhenDone, status, now, idx, scheduled, frameQueue, ticks,
                   starts, frameUpdates, settledSince, stops, tickStart>>

\* the awaited step completes: a suspended invocation continues
ResumeStep ==
    /\ pc = 0
    /\ \E i \in 1..Len(awaiting) :
          /\ pc' = awaiting[i]
          /\ awaiting' = [j \in 1..(Len(awaiting) - 1) |->
                             IF j < i THEN awaiting[j] ELSE awaiting[j + 1]]
    /\ UNCHANGED <<storeVars, timeWhenDone, status, now, idx, viaRaf, scheduled, frameQueue,
                   ticks, starts, frameUpdates, settledSince, stops, tickStart>>

\* requestAnimationFrame(loop) after the await
RequestFrame ==
    /\ At("requestFrame")
    /\ scheduled' = scheduled + 1
    /\ pc' = NextPc
    /\ UNCHANGED <<storeVars, timeWhenDone, status, now, idx, viaRaf, frameQueue, awaiting,
                   ticks, starts, frameUpdates, settledSince, stops, tickStart>>

CheckDone_Restamp ==
    /\ At("checkDone")
    /\ pc' = NextPc
    /\ IF elementsLeftOf(entityByElement) <= 1
       THEN timeWhenDone' = now
       ELSE UNCHANGED timeWhenDone
    /\ UNCHANGED <<storeVars, status, stops, now, idx, viaRaf, scheduled, frameQueue, awaiting,
                   ticks, starts, frameUpdates, settledSince, tickStart>>

\* elementsLeft, timeWhenDone and canvasRecorder.stop()
CheckDone ==
    /\ At("checkDone")
    /\ pc' = NextPc
    /\ IF elementsLeftOf(entityByElement) <= 1
       THEN IF timeWhenDone = 0
            THEN timeWhenDone' = now /\ UNCHANGED <<status, stops>>
            ELSE IF now - timeWhenDone > DwellMs
                 THEN /\ status' = "stopped"
                      /\ stops' = stops + 1
                      /\ UNCHANGED timeWhenDone
                 ELSE UNCHANGED <<timeWhenDone, status, stops>>
       ELSE UNCHANGED <<timeWhenDone, status, stops>>
    /\ UNCHANGED <<storeVars, now, idx, viaRaf, scheduled, frameQueue, awaiting, ticks,
                   starts, frameUpdates, settledSince, tickStart>>

\* time passes between tasks
AdvanceTime ==
    /\ Idle
    /\ now + TimeStep <= MaxNow
    /\ now' = now + TimeStep
    /\ UNCHANGED <<storeVars, timeWhenDone, status, ctlVars, ticks, starts, frameUpdates,
                   settledSince, stops, tickStart>>

SpecClick == CanvasClick(Len(InitStore.entities) + MaxClicks)

Next ==
    \/ SpecClick
    \/ StartClick
    \/ RecorderStarted
    \/ Frame
    \/ RunCallback
    \/ UpdateStep
    \/ Draw
    \/ CheckStatus
    \/ AwaitStep
    \/ ResumeStep
    \/ RequestFrame
    \/ CheckDone
    \/ AdvanceTime

Spec == Init /\ [][Next]_vars

\* ------------------------------------------------------------ a recording
\* The program after three clicks that put a dominator next to the paper and
\* the scissors cluster, so that the population settles within two ticks.
SettlingClicks == <<ClickNearPaper, ClickNearBoth, ClickNearScissors>>

RECURSIVE ClickAll(_, _, _)
ClickAll(s, cs, n) ==
    IF n = 0 THEN s
    ELSE LET c == cs[n]
         IN  createEntity(ClickAll(s, cs, n - 1), c.pos, c.vel, c.element)

SettlingStore == ClickAll(InitStore, SettlingClicks, Len(SettlingClicks))

RecordingInit ==
    /\ heap = SettlingStore.heap
    /\ entities = SettlingStore.entities
    /\ entityByElement = SettlingStore.entityByElement
    /\ timeWhenDone = 0
    /\ status = "ready"
    /\ now = 1
    /\ pc = 0
    /\ idx = 1
    /\ viaRaf = FALSE
    /\ scheduled = 0
    /\ frameQueue = 0
    /\ awaiting = <<>>
    /\ ticks = 0
    /\ starts = 0
    /\ frameUpdates = 0
    /\ settledSince = -1
    /\ stops = 0
    /\ tickStart = <<>>

LateClick == CanvasClick(Len(SettlingStore.entities) + MaxLateClicks)

RecordingNext ==
    \/ LateClick
    \/ StartClick
    \/ RecorderStarted
    \/ Frame
    \/ RunCallback
    \/ UpdateStep
    \/ Draw
    \/ CheckStatus
    \/ AwaitStep
    \/ ResumeStep
    \/ RequestFrame
    \/ CheckDone
    \/ AdvanceTime

\* The browser keeps delivering animation frames, code that runs runs on, the
\* recorder finishes starting, every awaited step completes and time passes;
\* nothing obliges the user to click.
RecordingFairness ==
    /\ WF_vars(RecorderStarted)
    /\ WF_vars(Frame \/ RunCallback)
    /\ WF_vars(UpdateStep \/ Draw \/ CheckStatus \/ AwaitStep \/ RequestFrame \/ CheckDone)
    /\ WF_vars(ResumeStep)
    /\ WF_vars(AdvanceTime)

RecordingSpec == RecordingInit /\ [][RecordingNext]_vars /\ RecordingFairness

\* ------------------------------------------------------------ paced frames
\* The same program when the browser delivers one animation frame every
\* TimeStep ms (a throttled page), so that time advances as long as frames
\* are delivered; code that runs between two frames reads the time of the
\* frame before.
PacedFrame ==
    /\ Idle
    /\ scheduled > 0
    /\ now + TimeStep <= PacedMaxNow
    /\ now' = now + TimeStep
    /\ frameQueue' = scheduled
    /\ scheduled' = 0
    /\ frameUpdates' = 0
    /\ UNCHANGED <<storeVars, timeWhenDone, status, pc, idx, viaRaf, awaiting, ticks,
                   starts, settledSince, stops, tickStart>>

PacedNext ==
    \/ LateClick
    \/ StartClick
    \/ RecorderStarted
    \/ PacedFrame
    \/ RunCallback
    \/ UpdateStep
    \/ Draw
    \/ CheckStatus
    \/ AwaitStep
    \/ ResumeStep
    \/ RequestFrame
    \/ CheckDone

PacedFairness ==
    /\ WF_vars(RecorderStarted)
    /\ WF_vars(PacedFrame \/ RunCallback)
    /\ WF_vars(UpdateStep \/ Draw \/ CheckStatus \/ AwaitStep \/ RequestFrame \/ CheckDone)
    /\ WF_vars(ResumeStep)

PacedSpec == RecordingInit /\ [][PacedNext]_vars /\ PacedFairness

\* ------------------------------------------------------------ one update() pass
\* update() applied to an arbitrary well-formed store: the entities a test
\* hands to the functions, positions in pixels, velocities in pixels per tick
UnitTemplates ==
    { [pos |-> <<100, 100>>, vel |-> <<0, 0>>],
      [pos |-> <<101, 100>>, vel |-> <<0, 0>>],
      [pos |-> <<120, 100>>, vel |-> <<0, 0>>],
      [pos |-> <<121, 100>>, vel |-> <<-Scale, 0>>],
      [pos |-> <<5, 200>>,   vel |-> <<-Scale, 0>>],
      [pos |-> <<10, 10>>,   vel |-> <<-1, -1>>],
      [pos |-> <<10, 200>>,  vel |-> <<-1, 1>>],
      [pos |-> <<395, 200>>, vel |-> <<1, -1>>],
      [pos |-> <<200, 391>>, vel |-> <<0, Scale>>] }

UnitEntities ==
    { [pos |-> <<t.pos[1] * Scale, t.pos[2] * Scale>>, vel |-> t.vel, element |-> k] :
         t \in UnitTemplates, k \in Element }

RECURSIVE BuildStore(_, _)
BuildStore(es, n) ==
    IF n = 0 THEN EmptyStore
    ELSE createEntity(BuildStore(es, n - 1), es[n].pos, es[n].vel, es[n].element)

UnitInit ==
    /\ \E n \in 0..UnitMaxEntities : \E es \in [1..n -> UnitEntities] :
          LET s == BuildStore(es, n)
          IN  /\ heap = s.heap
              /\ entities = s.entities
              /\ entityByElement = s.entityByElement
              /\ settledSince = IF SettledIn(s.entityByElement) THEN 1 ELSE -1
              /\ tickStart = s.heap
    /\ timeWhenDone = 0
    /\ status = "ready"
    /\ now = 1
    /\ pc = 1
    /\ idx = 1
    /\ viaRaf = FALSE
    /\ scheduled = 0
    /\ frameQueue = 0
    /\ awaiting = <<>>
    /\ ticks = 1
    /\ starts = 0
    /\ frameUpdates = 0
    /\ stops = 0

UnitNext == UpdateStep

UnitSpec == UnitInit /\ [][UnitNext]_vars

\* update() is synchronous: once called it runs on
TickInit == UnitInit /\ Len(entities) <= TickMaxEntities

TickSpec == TickInit /\ [][UnitNext]_vars /\ WF_vars(UpdateStep)

\* ------------------------------------------------------------ changeEntityElement
\* changeEntityElement called directly, as a test of the function does.  The
\* stores: built by createEntity, and then possibly with the element field of
\* one entity assigned without changeEntityElement, so that the entity is not
\* in the collection its field names.  Here pc stays 0, idx is the position in
\* the canonical list of the entity the next call is made on, and ticks counts
\* the calls made.
ChangeEntity(i, k) ==
    [pos |-> <<(100 + i) * Scale, 100 * Scale>>, vel |-> <<1, -1>>, element |-> k]

ChangeInit ==
    /\ \E n \in 1..UnitMaxEntities : \E ks \in [1..n -> Element] :
       \E d \in 0..n : \E k \in Element :
          LET s0 == BuildStore([i \in 1..n |-> ChangeEntity(i, ks[i])], n)
              s  == IF d = 0 THEN s0 ELSE [s0 EXCEPT !.heap[d].element = k]
          IN  /\ heap = s.heap
              /\ entities = s.entities
              /\ entityByElement = s.entityByElement
              /\ idx \in 1..n
    /\ timeWhenDone = 0
    /\ status = "ready"
    /\ now = 1
    /\ pc = 0
    /\ viaRaf = FALSE
    /\ scheduled = 0
    /\ frameQueue = 0
    /\ awaiting = <<>>
    /\ ticks = 0
    /\ starts = 0
    /\ frameUpdates = 0
    /\ settledSince = -1
    /\ stops = 0
    /\ tickStart = <<>>

\* one call changeEntityElement(entities[idx], element)
ChangeCall ==
    /\ ticks < MaxChangeCalls
    /\ \E element \in Element :
          SetStore(changeEntityElement(Store, entities[idx], element))
    /\ idx' \in 1..Len(entities)
    /\ ticks' = ticks + 1
    /\ UNCHANGED <<timeWhenDone, status, now, pc, viaRaf, scheduled, frameQueue, awaiting,
                   starts, frameUpdates, settledSince, stops, tickStart>>

ChangeNext == ChangeCall

ChangeSpec == ChangeInit /\ [][ChangeNext]_vars

\* ------------------------------------------------------------ claims

Range(seq) == {seq[i] : i \in 1..Len(seq)}
NoDup(seq) == \A i, j \in 1..Len(seq) : i # j => seq[i] # seq[j]

\* C1 (partition invariant): between operations the three kind-collections
\* hold no duplicates, are pairwise disjoint, their union is the set of the
\* entities of the canonical list (so their sizes sum to entities.length), and
\* every entity is in the collection named by its own element field.
C1_Partition ==
    /\ \A k \in Element : NoDup(entityByElement[k])
    /\ \A k1, k2 \in Element :
          k1 # k2 => Range(entityByElement[k1]) \cap Range(entityByElement[k2]) = {}
    /\ UNION {Range(entityByElement[k]) : k \in Element} = Range(entities)
    /\ Len(entityByElement["rock"]) + Len(entityByElement["paper"])
          + Len(entityByElement["scissors"]) = Len(entities)
    /\ \A i \in 1..Len(entities) :
          entities[i] \in Range(entityByElement[heap[entities[i]].element])

\* a conversion has moved an entity behind a later-created one, seen between tasks
C1_Witness ==
    /\ pc = 0
    /\ \E k \in Element : \E i, j \in 1..Len(entityByElement[k]) :
          i < j /\ entityByElement[k][i] > entityByElement[k][j]

\* ---- what the claims say of one iteration of update()'s loop
\* the kind that dominates k: rock is beaten by paper, paper by scissors,
\* scissors by rock
Dominator(k) ==
    CASE k = "rock" -> "paper"
      [] k = "paper" -> "scissors"
      [] k = "scissors" -> "rock"

\* update() is about to process an entity
Processing == At("update") /\ idx <= Len(entities)

\* the squared distance of two points, in grid units
DistSq(p, q) == (p[1] - q[1]) * (p[1] - q[1]) + (p[2] - q[2]) * (p[2] - q[2])

\* the other entities of kind k at a distance below 2 * ENTITY_SIZE of point p
Near(id, p, k) ==
    {o \in Range(entities) :
        o # id /\ heap[o].element = k /\ DistSq(p, heap[o].pos) < 4 * R * R}

\* C2 (dominance conversion): when checkCollision runs on an entity of kind K
\* (at its integrated position), the entity ends with the kind dominating K if
\* some entity of that kind is closer than 2 * ENTITY_SIZE, and keeps K if all
\* of them are at 2 * ENTITY_SIZE or farther.
C2_DominanceConversion ==
    [][Processing =>
          LET id == entities[idx]
              k  == heap[id].element
          IN  IF Near(id, heap'[id].pos, Dominator(k)) # {}
              THEN heap'[id].element = Dominator(k)
              ELSE heap'[id].element = k]_vars

\* the scenario of the claim after one pass: stationary entities at (100,100)
\* and (101,100), the first converted to the kind of the second
C2_Witness ==
    /\ ~At("update")
    /\ entities = <<1, 2>>
    /\ heap[1].pos = <<100 * Scale, 100 * Scale>> /\ heap[1].vel = <<0, 0>>
    /\ heap[2].pos = <<101 * Scale, 100 * Scale>> /\ heap[2].vel = <<0, 0>>
    /\ heap[1].element = heap[2].element
    /\ entityByElement[heap[2].element] = <<2, 1>>

\* C3 (no self/partial dominance): the dominance map has no fixed point and is
\* a 3-cycle; an entity changes kind only to the dominator of its kind, and only
\* when an entity of that dominator is closer than 2 * ENTITY_SIZE: same-kind
\* and dominated-kind neighbours never convert it.
C3_NoSelfOrPartialDominance ==
    [][/\ \A k \in Element :
             /\ enemyElementOf(k) \in Element \ {k}
             /\ enemyElementOf(enemyElementOf(enemyElementOf(k))) = k
             /\ Cardinality({j \in Element : enemyElementOf(j) = k}) = 1
       /\ Processing =>
             LET id == entities[idx]
                 k  == heap[id].element
             IN  heap'[id].element # k =>
                    /\ heap'[id].element = Dominator(k)
                    /\ Near(id, heap'[id].pos, Dominator(k)) # {}]_vars

\* an entity was just processed and kept its kind although a same-kind entity
\* and an entity of the kind it dominates overlap it
C3_Witness ==
    /\ At("update") /\ idx > 1
    /\ LET id == entities[idx - 1]
           k  == heap[id].element
       IN  /\ Near(id, heap[id].pos, k) # {}
           /\ \E d \in Element : Dominator(d) = k /\ Near(id, heap[id].pos, d) # {}
           /\ Near(id, heap[id].pos, Dominator(k)) = {}

InArena(p) == R <= p[1] /\ p[1] <= W - R /\ R <= p[2] /\ p[2] <= H - R

\* update() has just returned
AfterUpdate == pc > 1 /\ LoopCode[pc - 1] = "update"

\* C4 (boundary containment): when update() returns, every entity of the
\* canonical list is inside [ENTITY_SIZE, width - ENTITY_SIZE] x
\* [ENTITY_SIZE, height - ENTITY_SIZE], wherever it was spawned.
C4_BoundaryContainment ==
    AfterUpdate => \A i \in 1..Len(entities) : InArena(heap[entities[i]].pos)

\* an entity spawned by a click outside the interval, after its first tick
C4_Witness ==
    /\ AfterUpdate
    /\ \E i \in 1..Len(entities) :
          /\ heap[entities[i]].pos = <<R, R>>
          /\ heap[entities[i]].vel = <<1, 1>>

\* C5 as stated (reflection correctness): an entity at x = ENTITY_SIZE moving
\* left has its x-velocity negated by the next updateEntity, and its y-velocity
\* is the same after that step.
C5_Original ==
    [][Processing =>
          LET id == entities[idx]
          IN  heap[id].pos[1] = R /\ heap[id].vel[1] < 0 =>
                 /\ heap'[id].vel[1] = -heap[id].vel[1]
                 /\ heap'[id].vel[2] = heap[id].vel[2]]_vars

\* C5 as amended: the x-velocity is negated; the y-velocity is the same after
\* the step unless the step also takes y out of
\* [ENTITY_SIZE, height - ENTITY_SIZE], and then it is negated as well.
C5_Reflection ==
    [][Processing =>
          LET id == entities[idx]
              y1 == heap[id].pos[2] + heap[id].vel[2]
          IN  heap[id].pos[1] = R /\ heap[id].vel[1] < 0 =>
                 /\ heap'[id].vel[1] = -heap[id].vel[1]
                 /\ heap'[id].vel[2] =
                       IF y1 < R \/ y1 > H - R THEN -heap[id].vel[2] ELSE heap[id].vel[2]]_vars

\* an entity that was at x = ENTITY_SIZE moving left, away from the corners,
\* after its step: back at the wall, moving right, y-velocity kept
C5_Witness ==
    /\ At("update") /\ idx > 1
    /\ LET e == heap[entities[idx - 1]]
       IN  e.pos = <<R, 200 * Scale + 1>> /\ e.vel = <<1, 1>>

\* C6 (monotonic population): no step shortens the canonical list; a step of
\* update() leaves it as it is; any other change of it is an append of one new
\* entity, which is also appended to the collection of its kind while the two
\* other collections stay as they are.
C6_MonotonicPopulation ==
    [][/\ Len(entities') >= Len(entities)
       /\ At("update") => entities' = entities
       /\ entities' # entities =>
             LET new == entities'[Len(entities')]
                 k   == heap'[new].element
             IN  /\ entities' = Append(entities, new)
                 /\ new \notin Range(entities)
                 /\ entityByElement'[k] = Append(entityByElement[k], new)
                 /\ \A j \in Element \ {k} : entityByElement'[j] = entityByElement[j]]_vars

\* a click has added an entity after a tick has moved an entity clicked in before
C6_Witness ==
    /\ ticks > 0
    /\ Len(entities) > 3 * InitCount + 1
    /\ heap[Len(entities)].pos \in {c.pos : c \in ClickInputs}
    /\ \E i \in 1..Len(entities) : \E c \in ClickInputs :
          heap[i].pos # c.pos /\ i > 3 * InitCount

\* C7 (dwell before conclusion): whenever loop calls canvasRecorder.stop(), at
\* most one kind-collection has been non-empty for more than the dwell of
\* 1000 ms, without interruption, up to that call.
C7_DwellBeforeStop ==
    [][stops' > stops => settledSince # -1 /\ now - settledSince > DwellMs]_vars

\* C8 (one tick per frame): whatever the user does, update() runs at most once
\* in an animation frame.
C8_OneTickPerFrame == frameUpdates <= 1

\* no suspended invocation of loop() has done its update() and not yet its draw()
NoDrawPending ==
    \A i \in 1..Len(awaiting) : \A j \in 1..Len(LoopCode) :
       j >= awaiting[i] => LoopCode[j] # "draw"

\* C9 (spawn is never interleaved within a tick): an entity is added only
\* while no code of loop() is running and no invocation of loop() is suspended
\* between its update() and its draw(); no step of update() or draw() finds or
\* leaves the canonical list longer, and draw() leaves the store as update()
\* left it.
C9_SpawnBetweenTicks ==
    [][/\ Len(entities') > Len(entities) => pc = 0 /\ pc' = 0 /\ NoDrawPending
       /\ At("update") \/ At("draw") => Len(entities') = Len(entities)
       /\ At("update") /\ idx > Len(entities) => pc' > 0 /\ LoopCode[pc'] = "draw"
       /\ At("draw") => storeVars' = storeVars]_vars

\* a click has added an entity while an invocation of loop() was suspended at
\* its await: the entity has not moved yet
C9_Witness ==
    /\ pc = 0
    /\ awaiting # <<>>
    /\ ticks > 0
    /\ Len(entities) > 3 * InitCount
    /\ \E c \in ClickInputs :
          /\ heap[entities[Len(entities)]].pos = c.pos
          /\ heap[entities[Len(entities)]].vel = c.vel

\* C10 (ticking continues after conclusion): once loop() has been started,
\* every call of loop() is followed by a later one, so update() runs again
\* (here: as long as frames are delivered, i.e. below MaxTicks calls), also
\* after canvasRecorder.stop() has been called.  `ticks` never decreases, so
\* this is: from any state after the start, MaxTicks calls are reached.
C10_TickingContinues == (starts > 0) ~> (ticks >= MaxTicks)

\* update() runs in an animation callback after canvasRecorder.stop() was called
C10_Witness ==
    /\ stops > 0
    /\ status # "recording"
    /\ At("update") /\ viaRaf
    /\ idx > 1

\* the entity is a member of the collection that its element field names
InOwnCollection(id) ==
    \E i \in 1..Len(entityByElement[heap[id].element]) :
       entityByElement[heap[id].element][i] = id

\* C11 (desynchronization fails loudly): a call of changeEntityElement on an
\* entity that is not in the collection named by its element field fails and
\* leaves the collections and the entities as they were; in particular it
\* removes no other entity from that collection.
C11_DesyncFailsLoudly ==
    [][~InOwnCollection(entities[idx]) =>
          entityByElement' = entityByElement /\ heap' = heap]_vars

Abs(x) == IF x < 0 THEN -x ELSE x

\* C12 (velocity and kind frame conditions): a velocity component changes only
\* by negation, in the step of its own entity, when the integrated coordinate
\* leaves [ENTITY_SIZE, bound - ENTITY_SIZE], so that after a tick each
\* component has the absolute value it had before; checkCollision leaves the
\* position and velocity that updateEntity produced and every other entity
\* (the dominating one included) as they are; a kind changes only in the
\* checkCollision of the entity itself: not in updateEntity, not in draw(), not
\* when another entity is spawned.
C12_FrameConditions ==
    [][/\ \A id \in DOMAIN heap :
             /\ \A a \in 1..2 :
                   heap'[id].vel[a] # heap[id].vel[a] =>
                      /\ Processing /\ id = entities[idx]
                      /\ heap'[id].vel[a] = -heap[id].vel[a]
                      /\ LET c == heap[id].pos[a] + heap[id].vel[a]
                         IN  c < R \/ c > (IF a = 1 THEN W ELSE H) - R
             /\ heap'[id].element # heap[id].element => Processing /\ id = entities[idx]
             /\ ~(Processing /\ id = entities[idx]) => heap'[id] = heap[id]
       /\ Processing =>
             LET id == entities[idx]
                 u  == updateEntity(Store, id)
             IN  /\ heap'[id].pos = u.heap[id].pos
                 /\ heap'[id].vel = u.heap[id].vel
                 /\ u.heap[id].element = heap[id].element
                 /\ u.entityByElement = entityByElement
       /\ At("update") /\ idx > Len(entities) =>
             \A id \in DOMAIN tickStart : \A a \in 1..2 :
                Abs(heap[id].vel[a]) = Abs(tickStart[id].vel[a])]_vars

\* an entity has just been converted at its integrated position with the
\* velocity it had, next to a dominating entity that is as the tick found it
C12_Witness ==
    /\ At("update") /\ idx > 1
    /\ LET id == entities[idx - 1]
       IN  /\ heap[id].element # tickStart[id].element
           /\ heap[id].vel = tickStart[id].vel
           /\ heap[id].pos = <<tickStart[id].pos[1] + heap[id].vel[1],
                               tickStart[id].pos[2] + heap[id].vel[2]>>
           /\ \E o \in Near(id, heap[id].pos, heap[id].element) : heap[o] = tickStart[o]

\* C13 (motion integrator step): updateEntity adds the velocity to the
\* position; then, on each axis by itself, a coordinate below ENTITY_SIZE or
\* above bound - ENTITY_SIZE is set to the nearest end of
\* [ENTITY_SIZE, bound - ENTITY_SIZE] and that velocity component is negated,
\* and any other coordinate is old position + velocity with the component
\* kept.  In the 400x400 arena an entity at (5, 200) with velocity (-1, 0) is
\* at (10, 200) with velocity (1, 0) after its step.
C13_IntegratorStep ==
    [][Processing =>
          LET id == entities[idx]
              e  == heap[id]
          IN  /\ \A a \in 1..2 :
                    LET bound == IF a = 1 THEN W ELSE H
                        c     == e.pos[a] + e.vel[a]
                    IN  IF c < R
                        THEN heap'[id].pos[a] = R /\ heap'[id].vel[a] = -e.vel[a]
                        ELSE IF c > bound - R
                        THEN heap'[id].pos[a] = bound - R /\ heap'[id].vel[a] = -e.vel[a]
                        ELSE heap'[id].pos[a] = c /\ heap'[id].vel[a] = e.vel[a]
              /\ e.pos = <<5 * Scale, 200 * Scale>> /\ e.vel = <<-Scale, 0>> =>
                    /\ heap'[id].pos = <<10 * Scale, 200 * Scale>>
                    /\ heap'[id].vel = <<Scale, 0>>]_vars

\* the entity of the scenario after its step, and an entity that crossed the
\* far wall on x alone after its step
C13_Witness ==
    /\ At("update") /\ idx > 2
    /\ \E i, j \in 1..(idx - 1) :
          /\ tickStart[entities[i]].pos = <<5 * Scale, 200 * Scale>>
          /\ tickStart[entities[i]].vel = <<-Scale, 0>>
          /\ heap[entities[i]].pos = <<10 * Scale, 200 * Scale>>
          /\ heap[entities[i]].vel = <<Scale, 0>>
          /\ tickStart[entities[j]].pos = <<395 * Scale, 200 * Scale>>
          /\ heap[entities[j]].pos = <<W - R, 200 * Scale - 1>>
          /\ heap[entities[j]].vel = <<-1, -1>>

\* the record of an entity after one updateEntity, from the record the tick found
IntegratedOnce(e) ==
    LET x == axisStep(e.pos[1], e.vel[1], W)
        y == axisStep(e.pos[2], e.vel[2], H)
    IN  [pos |-> <<x[1], y[1]>>, vel |-> <<x[2], y[2]>>]

\* C14 (tick completeness): update() ends, on the empty store too, where it
\* changes nothing; it takes the entities of the canonical list one by one in
\* creation order, applies updateEntity and then checkCollision to the one at
\* hand and nothing to the others, so that at any moment of the pass the
\* entities before the iterator have been integrated exactly once and the
\* others are as the tick found them (none skipped, none taken twice, whatever
\* was converted); a kind changes only in the entity's own turn, hence at most
\* once in a tick.
C14_TickCompleteness ==
    /\ [][At("update") =>
             /\ entities' = entities
             /\ IF idx <= Len(entities)
                THEN /\ idx' = idx + 1
                     /\ At("update")'
                     /\ Store' = checkCollision(updateEntity(Store, entities[idx]), entities[idx])
                     /\ \A o \in DOMAIN heap : o # entities[idx] => heap'[o] = heap[o]
                ELSE /\ storeVars' = storeVars
                     /\ ~At("update")']_vars
    /\ [](At("update") =>
             /\ idx \in 1..(Len(entities) + 1)
             /\ DOMAIN tickStart = DOMAIN heap
             /\ \A j \in 1..Len(entities) :
                   LET e == entities[j]
                   IN  IF j < idx
                       THEN /\ heap[e].pos = IntegratedOnce(tickStart[e]).pos
                            /\ heap[e].vel = IntegratedOnce(tickStart[e]).vel
                            /\ heap[e].element \in
                                  {tickStart[e].element, Dominator(tickStart[e].element)}
                       ELSE heap[e] = tickStart[e])
    /\ At("update") ~> ~At("update")

\* a pass over two entities has ended, and it converted the first of them
C14_Witness ==
    /\ AfterUpdate
    /\ Len(entities) = 2
    /\ \E k \in Element : \E i, j \in 1..Len(entityByElement[k]) :
          i < j /\ entityByElement[k][i] > entityByElement[k][j]

\* the entity comes before the iterator of update() in the canonical list
Earlier(o) == \E j \in 1..(idx - 1) : entities[j] = o

\* C15 (mid-tick visibility and ordering): the scan made for the entity at
\* hand sees the store as it is: entities earlier in the canonical list with
\* the kind they have now and at their integrated position, entities later in
\* the list at the position and with the kind the tick found.  So an entity
\* converted earlier in the pass converts a later entity of the kind it now
\* dominates that it overlaps, and no longer makes a dominator for a later
\* entity that only its former kind dominated.
C15_MidTickVisibility ==
    [][Processing =>
          LET id   == entities[idx]
              k    == heap[id].element
              p    == heap'[id].pos
              seen == {o \in Range(entities) \ {id} :
                         LET v == IF Earlier(o)
                                  THEN [pos |-> IntegratedOnce(tickStart[o]).pos,
                                        element |-> heap[o].element]
                                  ELSE [pos |-> tickStart[o].pos,
                                        element |-> tickStart[o].element]
                         IN  v.element = Dominator(k) /\ DistSq(p, v.pos) < 4 * R * R}
          IN  /\ heap'[id].element = IF seen # {} THEN Dominator(k) ELSE k
              /\ \A o \in Range(entities) \ {id} :
                    /\ Earlier(o) /\ heap[o].element # tickStart[o].element
                          /\ heap[o].element = Dominator(k) /\ DistSq(p, heap[o].pos) < 4 * R * R
                       => heap'[id].element = heap[o].element
                    /\ Earlier(o) /\ heap[o].element # tickStart[o].element
                          /\ tickStart[o].element = Dominator(k)
                          /\ Near(id, p, Dominator(k)) = {}
                       => heap'[id].element = k]_vars

\* the second entity of the pass has been converted by the first, the only
\* entity it overlaps, which got its kind earlier in the same pass
C15_Witness ==
    /\ At("update") /\ idx = 3
    /\ LET e1 == entities[1]
           e2 == entities[2]
       IN  /\ heap[e1].element # tickStart[e1].element
           /\ heap[e2].element # tickStart[e2].element
           /\ heap[e2].element = heap[e1].element
           /\ tickStart[e1].element = tickStart[e2].element
           /\ Near(e2, heap[e2].pos, heap[e2].element) = {e1}

\* sequence `arr` without its i-th member
Without(arr, i) == [j \in 1..(Len(arr) - 1) |-> IF j < i THEN arr[j] ELSE arr[j + 1]]

\* C16 (changeKind effect): a call of changeEntityElement on an entity e that
\* is in the collection of its kind K, with another kind K2, takes e (one
\* member, the others keeping their order) out of K's collection, sets
\* e.element to K2, makes e the last member of K2's collection behind the
\* members it had, and leaves the third collection, the canonical list, e's
\* position and velocity and every other entity as they were.
C16_ChangeKindEffect ==
    [][LET e  == entities[idx]
           K  == heap[e].element
           K2 == heap'[e].element
       IN  InOwnCollection(e) /\ K2 # K =>
              /\ \E i \in 1..Len(entityByElement[K]) :
                    /\ entityByElement[K][i] = e
                    /\ entityByElement'[K] = Without(entityByElement[K], i)
              /\ entityByElement'[K2] = Append(entityByElement[K2], e)
              /\ \A k \in Element \ {K, K2} : entityByElement'[k] = entityByElement[k]
              /\ entities' = entities
              /\ heap'[e].pos = heap[e].pos /\ heap'[e].vel = heap[e].vel
              /\ \A o \in DOMAIN heap : o # e => heap'[o] = heap[o]]_vars

\* after one call on the second of three rocks: it is the only paper, and the
\* rocks on either side of it are left in their order
C16_Witness ==
    /\ ticks = 1
    /\ entities = <<1, 2, 3>>
    /\ entityByElement = [rock |-> <<1, 3>>, paper |-> <<2>>, scissors |-> <<>>]
    /\ heap[2].element = "paper"
    /\ heap[2].pos = ChangeEntity(2, "rock").pos

\* frames still to come after the present time
FramesLeft == (PacedMaxNow - now) \div TimeStep

\* frames it takes to report a settling: one whose continuation stamps
\* timeWhenDone, and then as many as bring the clock more than the dwell past it
DwellFrames == 2 + DwellMs \div TimeStep

\* C17 (conclusion is eventually reported): while the recorder is recording
\* and at most one kind-collection is non-empty, with frames being delivered
\* and time advancing (here: at least DwellFrames frames are still to come),
\* canvasRecorder.stop() is eventually called, unless before that a spawn
\* populates a second kind or the user restarts the recorder.
C17_ConclusionReported ==
    (status = "recording" /\ SettledIn(entityByElement) /\ FramesLeft >= DwellFrames)
       ~> (status # "recording" \/ ~SettledIn(entityByElement))

\* stop() has been called on a settled population, more than the dwell after
\* timeWhenDone was stamped
C17_Witness ==
    /\ status = "stopped"
    /\ stops = 1
    /\ SettledIn(entityByElement)
    /\ timeWhenDone # 0
    /\ now - timeWhenDone > DwellMs

\* the kinds whose collection is not empty
Populated(by) == {k \in Element : Len(by[k]) > 0}

\* C18 (extinction is permanent under ticks): in a step of update(), an empty
\* kind-collection stays empty and no entity of the kind it dominates changes
\* kind; so the number of non-empty collections does not grow in a tick, and
\* only a spawn populates an empty collection or ends a state with at most
\* one populated kind.
C18_ExtinctionPermanent ==
    [][/\ At("update") =>
             /\ \A k \in Element :
                   Len(entityByElement[k]) = 0 =>
                      /\ Len(entityByElement'[k]) = 0
                      /\ \A id \in DOMAIN heap :
                            Dominator(heap[id].element) = k
                               => heap'[id].element = heap[id].element
             /\ Cardinality(Populated(entityByElement')) <= Cardinality(Populated(entityByElement))
       /\ (~(Populated(entityByElement') \subseteq Populated(entityByElement))
             \/ (SettledIn(entityByElement) /\ ~SettledIn(entityByElement')))
          => (pc = 0 /\ Len(entities') = Len(entities) + 1)]_vars

\* in a tick that found a kind extinct, an entity of the kind it would have
\* converted has been processed while it overlapped an entity of the third kind
C18_Witness ==
    /\ At("update") /\ idx > 1
    /\ LET id == entities[idx - 1]
           k  == Dominator(heap[id].element)
       IN  /\ \A o \in DOMAIN tickStart : tickStart[o].element # k
           /\ Len(entityByElement[k]) = 0
           /\ \E d \in Element \ {k, heap[id].element} : Near(id, heap[id].pos, d) # {}

\* C19 (the winner is fixed once a kind is extinct): in a step of update(),
\* while the collection of the dominator of kind K is empty, no K entity
\* changes kind and K's collection does not shrink; so when exactly two kinds
\* are populated, the one that dominates the other stays populated, and if
\* the step leaves a single kind it is that one.
C19_WinnerFixed ==
    [][At("update") =>
          /\ \A K \in Element :
                Len(entityByElement[Dominator(K)]) = 0 =>
                   /\ Len(entityByElement'[K]) >= Len(entityByElement[K])
                   /\ \A id \in DOMAIN heap :
                         heap[id].element = K => heap'[id].element = K
          /\ \A A, B \in Element :
                Populated(entityByElement) = {A, B} /\ A = Dominator(B) =>
                   /\ Len(entityByElement'[A]) > 0
                   /\ Populated(entityByElement') \in {{A, B}, {A}}]_vars

\* a tick that found exactly two kinds has left only the one that dominates
\* the other
C19_Witness ==
    /\ At("update") /\ idx > 1
    /\ \E A, B \in Element :
          /\ A = Dominator(B)
          /\ {tickStart[o].element : o \in DOMAIN tickStart} = {A, B}
          /\ Populated(entityByElement) = {A}

====
